---- MODULE Spec2Model ----
(***************************************************************************)
(* proFit run orchestration: the in-process runner (profit/run/test.py),   *)
(* its per-run Interface and the worker tasks it creates.                  *)
(*                                                                         *)
(* One asyncio event loop drives everything: a step of the model is the    *)
(* code executed between two suspension points.                            *)
(***************************************************************************)
EXTENDS Integers, Sequences, FiniteSets, TLC

\* ------------------------------------------------------------------ bounds
\* number of spawn_run calls explored; also the size of the registry tables
MaxRuns == 2
\* number of done() calls one worker makes at most
MaxDoneCalls == 2
\* number of cpus sched_getaffinity reports
NCpus == 1

RunIds == 0..(MaxRuns - 1)

\* output cell before any worker has written it
Unset == -1

\* the elapsed seconds a worker stores (the TIME column starts at 0)
Elapsed == 1

\* ------------------------------------------------------------ mockup worker
\* the input tables explored (fields u, v): two rows alternate, starting with either
InputTables ==
    {[r \in RunIds |-> IF (r + s) % 2 = 0 THEN [u |-> 5, v |-> 1]
                                          ELSE [u |-> 6, v |-> 0]] : s \in 0..1}

\* mockup_f in exact integer arithmetic: r is given in quarters (r4 = 4r),
\* the result is 6400 * f.  With x = (r - 0.5) + u - 5 and y = 1 + 3(v - 0.6):
\* 4x = r4 - 2 + 4u - 20, 5y = 15v - 4,
\* 6400 f = 400 (4a - 4x)^2 + b (16 * 5y - 5 (4x)^2)^2
mockup_f(r4, u, v, a, b) ==
    LET X == (r4 - 2) + 4 * u - 20
        Y == 15 * v - 4
    IN  400 * (4 * a - X) * (4 * a - X)
          + b * (16 * Y - 5 * X * X) * (16 * Y - 5 * X * X)

\* MockupWorker.run: defaults r = 0.25, a = 1, b = 3, u and v from the input row
MockupValue(row) == mockup_f(1, row.u, row.v, 1, 3)

\* ------------------------------------------------------------ configuration
\* the 'parallel' settings explored: the default 'all' and the explicit cpu count
ParallelOptions == {[kind |-> "all", n |-> 0], [kind |-> "int", n |-> NCpus]}

\* LocalRunnerConfig.process_entries: 'parallel: all' becomes the cpu count
ProcessParallel(p) == IF p.kind = "all" THEN NCpus ELSE p.n

\* labels the run config may name as its interface class
InterfaceClasses == {"internal", "other"}

VARIABLES
    next_run_id,      \* Runner.next_run_id
    runs,             \* Runner.runs: run id -> index of the registered worker (0: no entry)
    workers,          \* every worker created so far, in creation order
    awaiting,         \* workers a blocking spawn_run call is awaiting
    input,            \* RunnerInterface.input
    output,           \* RunnerInterface.output
    internal,         \* RunnerInterface.internal: TIME and DONE columns
    log,              \* per worker: the warning check_runs has logged for its run
    cancel_result,    \* per run id: what cancel_all recorded
    parallel,         \* run_config['runner']['parallel'] after processing
    interface_class,  \* run_config['interface']['class']
    main,             \* main(): the run mode of the command line driver
    cfg,              \* BaseConfig.from_file: the configuration being built
    enc,              \* FitConfig.process_entries: the encoder column lists
    fs,               \* fill_run_dir: the run directories
    al                \* the active learning loop

\* the state of the runner and its registry
rvars == <<next_run_id, runs, workers, awaiting, input, output, internal, log,
           cancel_result, parallel, interface_class>>

\* the state of the components around the runner
aux == <<main, cfg, enc, fs, al>>

vars == <<rvars, aux>>

\* a component that takes no part in the behaviours of a specification
Idle == [pc |-> "idle"]

Workers == 1..Len(workers)

\* keys of Runner.runs
InFlight == {r \in RunIds : runs[r] # 0}

\* a task that was created and has not finished yet
Running(i) == workers[i].pc \notin {"finished", "raised"}

\* ------------------------------------------------------- InternalInterface
\* connect(): sets parent and ready
connect(w) == [w EXCEPT !.ready = TRUE]

\* variant: the accessor indexes the table with the following row
InterfaceInput_shifted(w, inp) ==
    IF w.ready THEN [ok |-> TRUE, val |-> inp[(w.run_id + 1) % MaxRuns]]
    ELSE [ok |-> FALSE, val |-> [u |-> 0, v |-> 0]]

\* every accessor dereferences self.parent, which only connect() assigns
InterfaceInput(w, inp) ==
    IF w.ready THEN [ok |-> TRUE, val |-> inp[w.run_id]]
    ELSE [ok |-> FALSE, val |-> [u |-> 0, v |-> 0]]

\* variant: the accessor hands out a copy of the row, the table is not written
InterfaceOutputSet_copy(w, out, value) == [ok |-> w.ready, output |-> out]

\* variant: the accessor reaches the table without a connected parent
InterfaceOutputSet_unchecked(w, out, value) ==
    [ok |-> TRUE, output |-> [out EXCEPT ![w.run_id] = value]]

InterfaceOutputSet(w, out, value) ==
    IF w.ready THEN [ok |-> TRUE, output |-> [out EXCEPT ![w.run_id] = value]]
    ELSE [ok |-> FALSE, output |-> out]

InterfaceOutputGet(w, out) ==
    IF w.ready THEN [ok |-> TRUE, val |-> out[w.run_id]]
    ELSE [ok |-> FALSE, val |-> Unset]

InterfaceTimeGet(w, intl) ==
    IF w.ready THEN [ok |-> TRUE, val |-> intl.TIME[w.run_id]]
    ELSE [ok |-> FALSE, val |-> 0]

InterfaceTimeSet(w, intl, value) ==
    IF w.ready THEN [ok |-> TRUE, internal |-> [intl EXCEPT !.TIME[w.run_id] = value]]
    ELSE [ok |-> FALSE, internal |-> intl]

\* variant: done() flips the completion flag instead of setting it
InterfaceDone_toggle(w, intl) ==
    IF w.ready
    THEN [ok |-> TRUE, internal |-> [intl EXCEPT !.DONE[w.run_id] = ~intl.DONE[w.run_id]]]
    ELSE [ok |-> FALSE, internal |-> intl]

InterfaceDone(w, intl) ==
    IF w.ready THEN [ok |-> TRUE, internal |-> [intl EXCEPT !.DONE[w.run_id] = TRUE]]
    ELSE [ok |-> FALSE, internal |-> intl]

\* -------------------------------------------------- InternalRunnerInterface
\* variant: cancel() claims success
cancel_pretend(run_id) == TRUE

\* cancel(): "not possible"
cancel(run_id) == FALSE

\* cancel_all closes the orchestration (main.py: spawn, finally cancel_all):
\* no run is spawned after it
Open == \A r \in RunIds : cancel_result[r] = "none"

\* ------------------------------------------------------------------- Init
\* the runner after construction
InitRunner ==
    /\ next_run_id = 0
    /\ runs = [r \in RunIds |-> 0]
    /\ workers = <<>>
    /\ awaiting = {}
    /\ input \in InputTables
    /\ output = [r \in RunIds |-> Unset]
    /\ internal = [TIME |-> [r \in RunIds |-> 0], DONE |-> [r \in RunIds |-> FALSE]]
    /\ log = [i \in 1..MaxRuns |-> "none"]
    /\ cancel_result = [r \in RunIds |-> "none"]
    /\ \E p \in ParallelOptions : parallel = ProcessParallel(p)
    /\ interface_class \in InterfaceClasses

InitAuxIdle ==
    /\ main = Idle
    /\ cfg = Idle
    /\ enc = Idle
    /\ fs = Idle
    /\ al = Idle

Init == InitRunner /\ InitAuxIdle

\* a runner that is constructed and takes no part in the behaviours
RunnerAside ==
    /\ InitRunner
    /\ interface_class = "internal"
    /\ \A r \in RunIds : input[r].u = 5 + (r % 2)

\* --------------------------------------------------------- InternalRunner
\* Worker.from_config(run_config, run_id) followed by the conditional connect
NewWorker(run_id, cls) ==
    LET w == [run_id |-> run_id, ready |-> FALSE, pc |-> "pre",
              wrote |-> Unset, dones |-> 0]
    IN  IF cls = "internal" THEN connect(w) ELSE w

\* self.runs[run_id] = dict(worker=..., task=...)
Register(rs, run_id, i) == [rs EXCEPT ![run_id] = i]

\* spawn_run(wait=False): no suspension point, the id is advanced at once
SpawnRunNoWait ==
    /\ Open
    /\ Len(workers) < MaxRuns
    /\ workers' = Append(workers, NewWorker(next_run_id, interface_class))
    /\ runs' = Register(runs, next_run_id, Len(workers) + 1)
    /\ next_run_id' = next_run_id + 1
    /\ UNCHANGED <<awaiting, input, output, internal, log, cancel_result,
                   parallel, interface_class, aux>>

\* spawn_run(params, wait=True) up to 'await task', as it acts on the runner:
\* params is not used
SpawnRunWaitCall ==
    /\ Open
    /\ Len(workers) < MaxRuns
    /\ workers' = Append(workers, NewWorker(next_run_id, interface_class))
    /\ runs' = Register(runs, next_run_id, Len(workers) + 1)
    /\ awaiting' = awaiting \cup {Len(workers) + 1}
    /\ UNCHANGED <<next_run_id, input, output, internal, log, cancel_result,
                   parallel, interface_class>>

\* spawn_run(wait=True) up to 'await task'
SpawnRunWait == SpawnRunWaitCall /\ UNCHANGED aux

\* variant: the blocking call goes on without awaiting its task
SpawnRunResumeCall_nowait(i) ==
    /\ i \in awaiting
    /\ awaiting' = awaiting \ {i}
    /\ next_run_id' = next_run_id + 1
    /\ UNCHANGED <<runs, workers, input, output, internal, log, cancel_result,
                   parallel, interface_class>>

\* 'await task' returns, or re-raises the task's exception before line 41,
\* as it acts on the runner
SpawnRunResumeCall(i) ==
    /\ i \in awaiting
    /\ ~Running(i)
    /\ awaiting' = awaiting \ {i}
    /\ next_run_id' = IF workers[i].pc = "finished" THEN next_run_id + 1
                      ELSE next_run_id
    /\ UNCHANGED <<runs, workers, input, output, internal, log, cancel_result,
                   parallel, interface_class>>

\* 'await task' returns, or re-raises the task's exception before line 41
SpawnRunResume(i) == SpawnRunResumeCall(i) /\ UNCHANGED aux

\* the warning check_runs logs for worker i in one scan: its run is registered
\* and its DONE flag is unset; the task itself is not looked at
Warning(i, rs, ws, intl) ==
    IF i <= Len(ws) /\ rs[ws[i].run_id] = i /\ ~intl.DONE[ws[i].run_id]
    THEN (IF ws[i].pc \in {"finished", "raised"} THEN "ended" ELSE "running")
    ELSE "none"

\* check_runs(): warn for every run without DONE, drop every run
CheckRuns ==
    /\ InFlight # {}
    /\ log' = [i \in 1..MaxRuns |->
                 IF Warning(i, runs, workers, internal) # "none"
                 THEN Warning(i, runs, workers, internal)
                 ELSE log[i]]
    /\ runs' = [r \in RunIds |-> 0]
    /\ UNCHANGED <<next_run_id, workers, awaiting, input, output, internal,
                   cancel_result, parallel, interface_class, aux>>

\* ---------------------------------------------------------- Runner.cancel_all
\* requests cancellation of every in-flight run and records, per run, whether
\* the backend's cancel took effect
CancelAllCall ==
    /\ cancel_result' = [r \in RunIds |->
            IF r \in InFlight
            THEN (IF cancel(r) THEN "cancelled" ELSE "not_cancelled")
            ELSE cancel_result[r]]
    /\ UNCHANGED <<next_run_id, runs, workers, awaiting, input, output, internal,
                   log, parallel, interface_class>>

CancelAll ==
    /\ InFlight # {}
    /\ CancelAllCall
    /\ UNCHANGED aux

\* ------------------------------------------------------------- worker tasks
\* Worker.main: pre -> run -> post with done -> return, each a step of the task
SetPc(i, pc) == [workers EXCEPT ![i].pc = pc]

\* NoPreprocessor.pre: logs the run's input
WorkerPre(i) ==
    /\ workers[i].pc = "pre"
    /\ LET r == InterfaceInput(workers[i], input)
       IN  workers' = SetPc(i, IF r.ok THEN "run" ELSE "raised")
    /\ UNCHANGED <<next_run_id, runs, awaiting, input, output, internal, log,
                   cancel_result, parallel, interface_class, aux>>

\* MockupWorker.run: output['f'] = mockup_f(**kwargs) with kwargs from the input,
\* then Worker.main stores the elapsed seconds in interface.time
WorkerRun(i) ==
    /\ workers[i].pc = "run"
    /\ LET rin == InterfaceInput(workers[i], input)
           value == MockupValue(rin.val)
           rout == InterfaceOutputSet(workers[i], output, value)
           rtime == InterfaceTimeSet(workers[i], internal, Elapsed)
       IN  IF rin.ok /\ rout.ok /\ rtime.ok
           THEN /\ output' = rout.output
                /\ internal' = rtime.internal
                /\ workers' = [workers EXCEPT ![i].pc = "post", ![i].wrote = value]
           ELSE /\ output' = output
                /\ internal' = internal
                /\ workers' = SetPc(i, "raised")
    /\ UNCHANGED <<next_run_id, runs, awaiting, input, log,
                   cancel_result, parallel, interface_class, aux>>

\* NoPostprocessor.post (logs only), then the first interface.done()
WorkerPost(i) ==
    /\ workers[i].pc = "post"
    /\ LET r == InterfaceDone(workers[i], internal)
       IN  /\ internal' = r.internal
           /\ workers' = IF r.ok
                         THEN [workers EXCEPT ![i].pc = "done", ![i].dones = 1]
                         ELSE SetPc(i, "raised")
    /\ UNCHANGED <<next_run_id, runs, awaiting, input, output, log,
                   cancel_result, parallel, interface_class, aux>>

\* a further interface.done() of a worker that has signalled completion
WorkerDone(i) ==
    /\ workers[i].pc = "done"
    /\ workers[i].dones < MaxDoneCalls
    /\ LET r == InterfaceDone(workers[i], internal)
       IN  /\ internal' = r.internal
           /\ workers' = IF r.ok
                         THEN [workers EXCEPT ![i].dones = workers[i].dones + 1]
                         ELSE SetPc(i, "raised")
    /\ UNCHANGED <<next_run_id, runs, awaiting, input, output, log,
                   cancel_result, parallel, interface_class, aux>>

\* the task returns after the completion signal
WorkerFinish(i) ==
    /\ workers[i].pc = "done"
    /\ workers' = SetPc(i, "finished")
    /\ UNCHANGED <<next_run_id, runs, awaiting, input, output, internal, log,
                   cancel_result, parallel, interface_class, aux>>

\* the simulation or the postprocessing raises: the task ends without done()
WorkerFail(i) ==
    /\ workers[i].pc \in {"run", "post"}
    /\ workers' = SetPc(i, "raised")
    /\ UNCHANGED <<next_run_id, runs, awaiting, input, output, internal, log,
                   cancel_result, parallel, interface_class, aux>>

\* operations of the Interface
Ops == {"input", "output_get", "output_set", "time_get", "time_set", "done"}

\* the effect of one Interface operation on the tables
ApplyOp(w, op, out, intl, inp) ==
    CASE op = "input" ->
            [ok |-> InterfaceInput(w, inp).ok, output |-> out, internal |-> intl]
      [] op = "output_get" ->
            [ok |-> InterfaceOutputGet(w, out).ok, output |-> out, internal |-> intl]
      [] op = "output_set" ->
            LET r == InterfaceOutputSet(w, out, 0)
            IN  [ok |-> r.ok, output |-> r.output, internal |-> intl]
      [] op = "time_get" ->
            [ok |-> InterfaceTimeGet(w, intl).ok, output |-> out, internal |-> intl]
      [] op = "time_set" ->
            LET r == InterfaceTimeSet(w, intl, Elapsed)
            IN  [ok |-> r.ok, output |-> out, internal |-> r.internal]
      [] op = "done" ->
            LET r == InterfaceDone(w, intl)
            IN  [ok |-> r.ok, output |-> out, internal |-> r.internal]

\* a worker whose interface was left unconnected (line 36) uses it: whatever
\* operation its first stage starts with is attempted and the task ends with
\* the error it raises
WorkerNotReady(i, op) ==
    /\ workers[i].pc = "pre"
    /\ ~workers[i].ready
    /\ LET r == ApplyOp(workers[i], op, output, internal, input)
       IN  /\ output' = r.output
           /\ internal' = r.internal
           /\ workers' = SetPc(i, IF r.ok THEN "run" ELSE "raised")
    /\ UNCHANGED <<next_run_id, runs, awaiting, input, log,
                   cancel_result, parallel, interface_class, aux>>

\* ------------------------------------------------------------------- Next
Next ==
    \/ SpawnRunNoWait
    \/ SpawnRunWait
    \/ \E i \in awaiting : SpawnRunResume(i)
    \/ CheckRuns
    \/ CancelAll
    \/ \E i \in Workers : WorkerPre(i)
    \/ \E i \in Workers : WorkerRun(i)
    \/ \E i \in Workers : WorkerPost(i)
    \/ \E i \in Workers : WorkerDone(i)
    \/ \E i \in Workers : WorkerFinish(i)
    \/ \E i \in Workers : WorkerFail(i)
    \/ \E i \in Workers, op \in Ops : WorkerNotReady(i, op)

Spec == Init /\ [][Next]_vars

\* ------------------------------------------------------------ properties
\* the worker has written a cell of its registry row
Touched(i) == workers[i].wrote # Unset \/ workers[i].dones >= 1

\* C1: no run id is ever reused: every spawn creates its worker under a run id
\* that no earlier spawn used.
C1_NoRunIdReuse ==
    \A i, j \in Workers : i # j => workers[i].run_id # workers[j].run_id

\* C2: a run takes exactly one terminal state and never a second one: no run is
\* both reported as crashed by check_runs and Done.
C2_OneTerminalState ==
    \A i \in Workers : ~(workers[i].dones >= 1 /\ log[i] # "none")

\* C3: never more than 'parallel' runs are in Running state at once.
C3_ParallelBound ==
    Cardinality({i \in Workers : Running(i)}) <= parallel

\* C4: a value written through one run's Interface is never readable through
\* another run's Interface: no other worker addresses a row a worker has written.
C4_NoCrossRunAliasing ==
    \A i, j \in Workers :
        (i # j /\ Touched(i)) => workers[j].run_id # workers[i].run_id

\* C5: a run whose task ended without done() is reported as crashed exactly
\* once: no later check_runs warning names the same run id again.
C5_ReportedOnce ==
    \A i, j \in Workers :
        (i < j /\ log[i] = "ended" /\ log[j] # "none")
        => workers[j].run_id # workers[i].run_id

\* C6: check_runs warns only about runs whose task has terminated, and a run
\* whose task is still executing stays in the in-flight set.
C6_OnlyEndedReported ==
    [][ /\ \A i \in Workers : log'[i] # log[i] => log'[i] = "ended"
        /\ \A r \in RunIds :
              (runs[r] # 0 /\ Running(runs[r])) => runs'[r] # 0 ]_vars

C8_DoneIdempotent ==
    [][ \A i \in Workers :
          ( /\ workers[i].pc = "done"
            /\ workers[i].dones >= 1
            /\ workers'[i] # workers[i]
            /\ workers'[i].pc # "finished" )
          => /\ workers'[i].pc = "done"
             /\ workers'[i].dones = workers[i].dones + 1
             /\ input' = input /\ output' = output /\ internal' = internal ]_vars

C8_Witness ==
    \E i \in Workers :
        /\ workers[i].dones = 2
        /\ workers[i].pc \in {"done", "finished"}
        /\ internal.DONE[workers[i].run_id]

\* C9: an Interface operation invoked before connect() fails and changes no
\* registry state; an operation succeeds only on a connected interface.
C9_NotReadyFails ==
    [][ \A i \in Workers :
          (~workers[i].ready /\ workers'[i] # workers[i])
          => /\ workers'[i].pc = "raised"
             /\ input' = input /\ output' = output /\ internal' = internal ]_vars

C9_Witness ==
    \E i \in Workers :
        /\ ~workers[i].ready
        /\ workers[i].pc = "raised"
        /\ output[workers[i].run_id] = Unset
        /\ ~internal.DONE[workers[i].run_id]

\* C10: whenever a run's DONE flag is observed true, every output value its
\* worker has written is present in the run's output row.
C10_WritesVisibleWhenDone ==
    \A i \in Workers :
        (internal.DONE[workers[i].run_id] /\ workers[i].wrote # Unset)
        => output[workers[i].run_id] = workers[i].wrote

C10_Witness ==
    \E i \in Workers :
        /\ workers[i].dones >= 1
        /\ internal.DONE[workers[i].run_id]
        /\ workers[i].wrote # Unset
        /\ output[workers[i].run_id] = workers[i].wrote

\* C12: a blocking spawn_run ends only after its task has ended, and it returns
\* (advancing the run id) only when the run is Done; a non-blocking spawn_run
\* returns in the step that creates the task, which is still Running.
C12_BlockingWaits ==
    [][ /\ \A i \in awaiting :
              i \notin awaiting' =>
                  /\ ~Running(i)
                  /\ next_run_id' # next_run_id =>
                        /\ workers[i].pc = "finished"
                        /\ internal.DONE[workers[i].run_id]
        /\ (Len(workers') > Len(workers) /\ awaiting' = awaiting) =>
              /\ next_run_id' = next_run_id + 1
              /\ workers'[Len(workers')].pc = "pre" ]_vars

\* the blocking call is still suspended, its task has just ended with done()
C12_Witness ==
    \E i \in awaiting :
        /\ workers[i].pc = "finished"
        /\ internal.DONE[workers[i].run_id]
        /\ next_run_id = workers[i].run_id

\* C13: whatever the order in which the tasks complete, the output stored under
\* a run's id is the mock function of the input row of that same id.
C13_OutputIsMockOfOwnInput ==
    /\ \A r \in RunIds :
          output[r] # Unset => output[r] = mockup_f(1, input[r].u, input[r].v, 1, 3)
    /\ \A i \in Workers :
          workers[i].wrote # Unset =>
              /\ output[workers[i].run_id] = workers[i].wrote
              /\ workers[i].wrote =
                    mockup_f(1, input[workers[i].run_id].u, input[workers[i].run_id].v, 1, 3)

\* the later of two runs completes first, both outputs are in place
C13_Witness ==
    \E i, j \in Workers :
        /\ i < j
        /\ workers[i].run_id # workers[j].run_id
        /\ workers[j].pc = "finished"
        /\ workers[i].pc = "post"
        /\ output[workers[i].run_id] # output[workers[j].run_id]
        /\ output[workers[j].run_id] # Unset

\* ================================================================ FitConfig
\* FitConfig.process_entries: "Delete excluded columns from other encoders"
NCols == 3

Columns == 0..(NCols - 1)

\* a list of column indices in ascending order, as enc['columns'] holds them
RECURSIVE SortedSeq(_)
SortedSeq(S) ==
    IF S = {} THEN <<>>
    ELSE LET m == CHOOSE x \in S : \A y \in S : x <= y
         IN  <<m>> \o SortedSeq(S \ {m})

SeqToSet(q) == {q[k] : k \in 1..Len(q)}

\* cols2.index(x): position of the first occurrence
IndexOf(q, x) == CHOOSE k \in 1..Len(q) : q[k] = x /\ \A j \in 1..(k - 1) : q[j] # x

\* cols2.pop(idx2); cols2[idx2:] = [c - 1 for c in cols2[idx2:]]
PopAndReindex(q, k) ==
    [j \in 1..(Len(q) - 1) |-> IF j < k THEN q[j] ELSE q[j + 1] - 1]

\* cols2[:] = [c-1 if c > col1 else c for c in cols2]
ReindexAbove(q, col1) == [j \in 1..Len(q) |-> IF q[j] > col1 THEN q[j] - 1 ELSE q[j]]

\* an 'exclude' encoder with columns cols1 and a later encoder with columns cols2
InitExclude ==
    /\ RunnerAside
    /\ main = Idle /\ cfg = Idle /\ fs = Idle /\ al = Idle
    /\ \E E \in SUBSET Columns, C \in SUBSET Columns :
          enc = [pc |-> "loop", cols1 |-> SortedSeq(E), columns |-> SortedSeq(C),
                 cols2 |-> SortedSeq(C), idx1 |-> 1, removed_cols |-> 0]

\* the column the iteration looks for: col_rm = col1 - removed_cols
col_rm == enc.cols1[enc.idx1] - enc.removed_cols

\* line 590, true branch: the column is in cols2
ExcludeRemove ==
    /\ enc.pc = "loop"
    /\ enc.idx1 <= Len(enc.cols1)
    /\ col_rm \in SeqToSet(enc.cols2)
    /\ enc' = [enc EXCEPT !.cols2 = PopAndReindex(enc.cols2, IndexOf(enc.cols2, col_rm)),
                          !.removed_cols = enc.removed_cols + 1,
                          !.idx1 = enc.idx1 + 1]
    /\ UNCHANGED <<rvars, main, cfg, fs, al>>

\* line 596, else branch: the column is not in cols2
ExcludeReindex ==
    /\ enc.pc = "loop"
    /\ enc.idx1 <= Len(enc.cols1)
    /\ col_rm \notin SeqToSet(enc.cols2)
    /\ enc' = [enc EXCEPT !.cols2 = ReindexAbove(enc.cols2, enc.cols1[enc.idx1]),
                          !.idx1 = enc.idx1 + 1]
    /\ UNCHANGED <<rvars, main, cfg, fs, al>>

\* the loop over cols1 is exhausted
ExcludeEnd ==
    /\ enc.pc = "loop"
    /\ enc.idx1 > Len(enc.cols1)
    /\ enc' = [enc EXCEPT !.pc = "done"]
    /\ UNCHANGED <<rvars, main, cfg, fs, al>>

NextExclude ==
    \/ ExcludeRemove
    \/ ExcludeReindex
    \/ ExcludeEnd

SpecExclude == InitExclude /\ [][NextExclude]_vars

\* C19: the later encoder ends with exactly the columns of C that are not in E,
\* each lowered by the number of columns of E smaller than it.
C19_ExcludedColumnsDeleted ==
    enc.pc = "done" =>
        LET E == SeqToSet(enc.cols1)
            C == SeqToSet(enc.columns)
        IN  enc.cols2 =
              SortedSeq({c - Cardinality({e \in E : e < c}) : c \in C \ E})

\* ============================================================= fill_run_dir
\* fill_run_dir(eval_points, template_dir, run_dir, overwrite)
MaxPoints == 3

\* the indices krun of the run directories run_dir/000, run_dir/001, ...
Points == 0..(MaxPoints - 1)

\* the file system before the call: any run directory and input.txt may be
\* left over from an earlier batch
InitFill ==
    /\ RunnerAside
    /\ main = Idle /\ cfg = Idle /\ enc = Idle /\ al = Idle
    /\ \E size \in 1..MaxPoints, overwrite \in BOOLEAN,
          dirs \in [Points -> {"absent", "old"}], txt \in {"absent", "old"} :
          fs = [pc |-> "loop", size |-> size, overwrite |-> overwrite,
                krun |-> 0, dirs |-> dirs, before |-> dirs,
                input_txt |-> txt, txt_before |-> txt]

\* os.path.exists(run_dir_single)
Exists(d) == d # "absent"

\* lines 38-45 without the raise: rmtree when the directory exists and
\* overwrite is set, then copy_template and fill_template
FillStage ==
    /\ fs.pc = "loop"
    /\ fs.krun < fs.size
    /\ Exists(fs.dirs[fs.krun]) => fs.overwrite
    /\ fs' = [fs EXCEPT !.dirs[fs.krun] = "filled", !.krun = fs.krun + 1]
    /\ UNCHANGED <<rvars, main, cfg, enc, al>>

\* variant: input.txt is placed before the error leaves the function
FillRaise_after_input ==
    /\ fs.pc = "loop"
    /\ fs.krun < fs.size
    /\ Exists(fs.dirs[fs.krun])
    /\ ~fs.overwrite
    /\ fs' = [fs EXCEPT !.pc = "raised", !.input_txt = "written"]
    /\ UNCHANGED <<rvars, main, cfg, enc, al>>

\* line 42: raise RuntimeError('Run directory not empty')
FillRaise ==
    /\ fs.pc = "loop"
    /\ fs.krun < fs.size
    /\ Exists(fs.dirs[fs.krun])
    /\ ~fs.overwrite
    /\ fs' = [fs EXCEPT !.pc = "raised"]
    /\ UNCHANGED <<rvars, main, cfg, enc, al>>

\* line 47: write_input(eval_points, run_dir) after the loop
FillWriteInput ==
    /\ fs.pc = "loop"
    /\ fs.krun = fs.size
    /\ fs' = [fs EXCEPT !.pc = "done", !.input_txt = "written"]
    /\ UNCHANGED <<rvars, main, cfg, enc, al>>

NextFill ==
    \/ FillStage
    \/ FillRaise
    \/ FillWriteInput

SpecFill == InitFill /\ [][NextFill]_vars

\* C17: when fill_run_dir meets an existing run directory with overwrite=False
\* it raises at that run: the directories of that and of every higher index are
\* as they were before the call, and input.txt is not written.
C17_StagingAborts ==
    fs.pc = "raised" =>
        /\ ~fs.overwrite
        /\ Exists(fs.before[fs.krun])
        /\ \A k \in Points : k < fs.krun => ~Exists(fs.before[k])
        /\ \A k \in Points : k >= fs.krun => fs.dirs[k] = fs.before[k]
        /\ fs.input_txt = fs.txt_before

\* the batch was aborted at its second run: the first is staged, the third is
\* still absent and there is no input.txt
C17_Witness ==
    /\ fs.pc = "raised"
    /\ fs.krun = 1
    /\ fs.size >= 3
    /\ fs.dirs[0] = "filled"
    /\ fs.dirs[2] = "absent"
    /\ fs.input_txt = "absent"

\* =============================================================== BaseConfig
\* BaseConfig.from_file and the sub configs it creates and processes
MaxCpus == 2

\* VALID_FORMATS
VALID_FORMATS == {".yaml", ".py"}

\* the extensions of the config files explored
Extensions == VALID_FORMATS \cup {".json"}

\* the sub configs that fall back to DefaultConfig (config.py:705-709)
Labels == {"runner", "interface", "pre", "post", "acquisition_function"}

\* the classes registered for a label besides "default"
Registered(label) ==
    CASE label = "runner" -> {"local", "slurm"}
      [] label = "interface" -> {"memmap", "zeromq"}
      [] label = "pre" -> {"template"}
      [] label = "post" -> {"json", "numpytxt", "hdf5"}
      [] label = "acquisition_function" -> {"simple_exploration"}

\* the 'class' entries explored: for the runner every registered class, for
\* the other labels one registered class, and for all a class nobody registered
ClassChoices(label) ==
    (IF label = "runner" THEN Registered(label)
     ELSE {CHOOSE c \in Registered(label) : TRUE}) \cup {"custom"}

\* the values of the slurm option 'cpus' explored: integers, the strings
\* 'all' and 'many', and a float
CpusValues ==
    {[type |-> "int", val |-> n, text |-> ""] : n \in -1..MaxCpus}
    \cup {[type |-> "str", val |-> 0, text |-> t] : t \in {"all", "many"}}
    \cup {[type |-> "float", val |-> 2, text |-> ""]}

\* variant: the type of 'cpus' is not looked at
CpusRejected_untyped(c) == c.val < 1 /\ ~(c.type = "str" /\ c.text = "all")

\* (type(self.cpus) is not int or self.cpus < 1) and self.cpus != 'all'
CpusRejected(c) ==
    (c.type # "int" \/ c.val < 1) /\ ~(c.type = "str" /\ c.text = "all")

\* create_subconfig: the registered class, or "default" on KeyError
SubConfigClass(label, class) ==
    IF class \in Registered(label) THEN class ELSE "default"

InitConfig ==
    /\ RunnerAside
    /\ main = Idle /\ enc = Idle /\ fs = Idle /\ al = Idle
    /\ \E ext \in Extensions, cpus \in CpusValues,
          classes \in [Labels -> UNION {ClassChoices(l) : l \in Labels}] :
          /\ \A l \in Labels : classes[l] \in ClassChoices(l)
          /\ cfg = [pc |-> "from_file", ext |-> ext, cpus |-> cpus,
                    classes |-> classes,
                    sub |-> [l \in Labels |-> "none"],
                    warned |-> {}, error |-> "none", spawned |-> FALSE]

\* from_file: the extension selects the loader, or TypeError
ConfigFromFile ==
    /\ cfg.pc = "from_file"
    /\ cfg' = IF cfg.ext \in VALID_FORMATS
              THEN [cfg EXCEPT !.pc = "create"]
              ELSE [cfg EXCEPT !.pc = "failed", !.error = "TypeError"]
    /\ UNCHANGED <<rvars, main, enc, fs, al>>

\* __init__: create_subconfig for every label; DefaultConfig.__init__ warns
ConfigCreateSubconfigs ==
    /\ cfg.pc = "create"
    /\ cfg' = [cfg EXCEPT
                 !.pc = "process",
                 !.sub = [l \in Labels |-> SubConfigClass(l, cfg.classes[l])],
                 !.warned = {l \in Labels :
                               SubConfigClass(l, cfg.classes[l]) = "default"}]
    /\ UNCHANGED <<rvars, main, enc, fs, al>>

\* process_entries of the sub configs: SlurmRunnerConfig checks 'cpus'
ConfigProcessEntries ==
    /\ cfg.pc = "process"
    /\ cfg' = IF cfg.sub["runner"] = "slurm" /\ CpusRejected(cfg.cpus)
              THEN [cfg EXCEPT !.pc = "failed", !.error = "ValueError"]
              ELSE [cfg EXCEPT !.pc = "built"]
    /\ UNCHANGED <<rvars, main, enc, fs, al>>

\* main: the runner is created and spawns once from_file has returned
ConfigRun ==
    /\ cfg.pc = "built"
    /\ ~cfg.spawned
    /\ cfg' = [cfg EXCEPT !.spawned = TRUE]
    /\ UNCHANGED <<rvars, main, enc, fs, al>>

NextConfig ==
    \/ ConfigFromFile
    \/ ConfigCreateSubconfigs
    \/ ConfigProcessEntries
    \/ ConfigRun

SpecConfig == InitConfig /\ [][NextConfig]_vars

UnsupportedExtension == cfg.ext \notin VALID_FORMATS

UnknownClass == \E l \in Labels : cfg.classes[l] \notin Registered(l)

InvalidSlurmCpus ==
    /\ cfg.classes["runner"] = "slurm"
    /\ ~( \/ (cfg.cpus.type = "int" /\ cfg.cpus.val >= 1)
          \/ (cfg.cpus.type = "str" /\ cfg.cpus.text = "all") )

\* C18 as stated: with an unsupported extension, an unknown 'class' or an
\* invalid slurm 'cpus' the build of the configuration never completes and no
\* run is spawned.
C18_InvalidConfigFatal ==
    (UnsupportedExtension \/ UnknownClass \/ InvalidSlurmCpus)
        => (cfg.pc # "built" /\ ~cfg.spawned)

\* C18 amended: an unsupported extension and an invalid slurm 'cpus' end the
\* build with an error before any run is spawned; an unknown 'class' is no
\* error: the sub config is a DefaultConfig, a warning is issued for it.
C18_ExtensionAndCpusFatal ==
    /\ (UnsupportedExtension \/ InvalidSlurmCpus)
          => (cfg.pc # "built" /\ ~cfg.spawned)
    /\ cfg.pc = "failed" =>
          cfg.error = IF UnsupportedExtension THEN "TypeError" ELSE "ValueError"
    /\ cfg.pc = "built" =>
          \A l \in Labels :
              cfg.classes[l] \notin Registered(l)
                  => (cfg.sub[l] = "default" /\ l \in cfg.warned)

\* the slurm configuration with a float for 'cpus' has been rejected
C18_Witness ==
    /\ cfg.pc = "failed"
    /\ cfg.error = "ValueError"
    /\ cfg.cpus.type = "float"
    /\ ~UnknownClass

\* ============================================================ main, run mode
\* what a Python function without a return statement returns (None)
NoneValue == -1

\* Runner.fill(named_input): the input rows of the registry are set
fill(named_input) == named_input

\* run mode starts with a runner from Runner.from_config; ntrain rows of
\* named_input are to be run, 'activelearning' tells whether a variable of
\* that kind exists
InitMain ==
    /\ InitRunner
    /\ cfg = Idle /\ enc = Idle /\ fs = Idle /\ al = Idle
    /\ \E ntrain \in 1..MaxRuns, activelearning \in BOOLEAN, clean \in BOOLEAN,
          fit_save \in BOOLEAN, named_input \in InputTables :
          main = [pc |-> "start", ntrain |-> ntrain,
                  activelearning |-> activelearning, clean |-> clean,
                  fit_save |-> fit_save, named_input |-> named_input,
                  k |-> 0, passed |-> <<>>, returned |-> <<>>,
                  events |-> <<>>, exc |-> FALSE]

\* a call of the driver is recorded
Event(m, e) == [m EXCEPT !.events = Append(m.events, e)]

\* variant: the try statements have no finally clause
Raise_uncaught(m) == [m EXCEPT !.pc = "raised", !.exc = TRUE]

\* an exception inside a try statement: control goes to its finally clause
Raise(m) == [m EXCEPT !.pc = "finally", !.exc = TRUE]

\* lines 71-74 and 83-84: the branch on the kind 'activelearning'
MainStart ==
    /\ main.pc = "start"
    /\ IF main.activelearning
       THEN /\ input' = fill(main.named_input)
            /\ main' = Event([main EXCEPT !.pc = "run_first"], "fill")
       ELSE /\ input' = input
            /\ main' = Event([main EXCEPT !.pc = "spawn_array"], "spawn_array")
    /\ UNCHANGED <<next_run_id, runs, workers, awaiting, output, internal, log,
                   cancel_result, parallel, interface_class, cfg, enc, fs, al>>

\* spawn_array(params_array, blocking=True): spawn_run(params, wait=True) for
\* the next row
MainSpawnRun ==
    /\ main.pc = "spawn_array"
    /\ main.k < main.ntrain
    /\ SpawnRunWaitCall
    /\ main' = [main EXCEPT !.pc = "await",
                            !.passed = Append(main.passed, main.named_input[main.k])]
    /\ UNCHANGED <<cfg, enc, fs, al>>

\* spawn_run(wait=True) ends: it returns (nothing) when the task returned; when
\* the task raised, spawn_run raises, and spawn_array either goes on with the
\* next row or lets the exception pass to main
MainResume(i) ==
    /\ main.pc = "await"
    /\ SpawnRunResumeCall(i)
    /\ \E handled \in BOOLEAN :
          main' = IF workers[i].pc = "finished"
                  THEN [main EXCEPT
                          !.pc = "spawn_array", !.k = main.k + 1,
                          !.returned = Append(main.returned,
                              [params |-> main.passed[Len(main.passed)],
                               worker |-> i, ret |-> NoneValue])]
                  ELSE IF handled
                       THEN [main EXCEPT !.pc = "spawn_array", !.k = main.k + 1]
                       ELSE Raise(main)
    /\ UNCHANGED <<cfg, enc, fs, al>>

\* spawn_array returns after the last row
MainSpawnArrayReturn ==
    /\ main.pc = "spawn_array"
    /\ main.k = main.ntrain
    /\ main' = [main EXCEPT !.pc = "finally"]
    /\ UNCHANGED <<rvars, cfg, enc, fs, al>>

\* line 76: al.run_first() returns or raises
MainRunFirst ==
    /\ main.pc = "run_first"
    /\ \E ok \in BOOLEAN :
          main' = IF ok THEN Event([main EXCEPT !.pc = "learn"], "run_first")
                  ELSE Raise(Event(main, "run_first"))
    /\ UNCHANGED <<rvars, cfg, enc, fs, al>>

\* line 77: al.learn() returns or raises
MainLearn ==
    /\ main.pc = "learn"
    /\ \E ok \in BOOLEAN :
          main' = IF ok THEN Event([main EXCEPT !.pc = "finally"], "learn")
                  ELSE Raise(Event(main, "learn"))
    /\ UNCHANGED <<rvars, cfg, enc, fs, al>>

\* lines 78-79 and 87-88: finally: runner.cancel_all(); a pending exception
\* then leaves main
MainFinally ==
    /\ main.pc = "finally"
    /\ CancelAllCall
    /\ main' = Event([main EXCEPT !.pc = IF main.exc THEN "raised"
                                        ELSE IF main.activelearning THEN "al_save"
                                        ELSE "clean"],
                     "cancel_all")
    /\ UNCHANGED <<cfg, enc, fs, al>>

\* lines 80-81: if config['fit'].get('save'): al.save(...)
MainAlSave ==
    /\ main.pc = "al_save"
    /\ main' = IF main.fit_save THEN Event([main EXCEPT !.pc = "clean"], "al_save")
               ELSE [main EXCEPT !.pc = "clean"]
    /\ UNCHANGED <<rvars, cfg, enc, fs, al>>

\* lines 90-91: if config['run']['clean']: runner.clean()
MainClean ==
    /\ main.pc = "clean"
    /\ main' = IF main.clean THEN Event([main EXCEPT !.pc = "save"], "clean")
               ELSE [main EXCEPT !.pc = "save"]
    /\ UNCHANGED <<rvars, cfg, enc, fs, al>>

\* lines 93-97: the output file is saved
MainSaveOutput ==
    /\ main.pc = "save"
    /\ main' = Event([main EXCEPT !.pc = "exit"], "save_output")
    /\ UNCHANGED <<rvars, cfg, enc, fs, al>>

NextMain ==
    \/ MainStart
    \/ MainSpawnRun
    \/ \E i \in awaiting : MainResume(i)
    \/ MainSpawnArrayReturn
    \/ MainRunFirst
    \/ MainLearn
    \/ MainFinally
    \/ MainAlSave
    \/ MainClean
    \/ MainSaveOutput
    \/ \E i \in Workers : WorkerPre(i)
    \/ \E i \in Workers : WorkerRun(i)
    \/ \E i \in Workers : WorkerPost(i)
    \/ \E i \in Workers : WorkerDone(i)
    \/ \E i \in Workers : WorkerFinish(i)
    \/ \E i \in Workers : WorkerFail(i)

SpecMain == InitMain /\ [][NextMain]_vars

\* main has ended, by returning or with an exception
MainEnded == main.pc \in {"exit", "raised"}

\* the calls of the given names, in the order in which main made them
Calls(names) == SelectSeq(main.events, LAMBDA e : e \in names)

\* C11: spawn_run(params) returns the id of a freshly allocated registry slot,
\* and after it has returned the input row of that id is the params passed.
C11_SpawnRunReturnsFilledSlot ==
    \A c \in 1..Len(main.returned) :
        LET call == main.returned[c]
            id == workers[call.worker].run_id
        IN  /\ call.ret = id
            /\ \A j \in 1..(call.worker - 1) : workers[j].run_id # id
            /\ input[id] = call.params

\* C14: a worker failure in one run is isolated: main's spawning of the
\* remaining rows is not aborted by it, and no other run works on the registry
\* row (input, output, time, completion flag) of the failed run.
C14_FailureIsolated ==
    /\ (~main.activelearning /\ MainEnded) => Len(main.passed) = main.ntrain
    /\ \A i, j \in Workers :
          (i # j /\ workers[i].pc = "raised")
              => workers[j].run_id # workers[i].run_id

\* C15: without active learning and with a training budget of n, run mode has
\* issued exactly n spawn requests when it ends, one per input row, there are
\* exactly n terminal runs, and no active learning call was made.
C15_ExactlyNRuns ==
    (~main.activelearning /\ MainEnded) =>
        /\ Len(main.passed) = main.ntrain
        /\ \A k \in 1..Len(main.passed) : main.passed[k] = main.named_input[k - 1]
        /\ Cardinality({workers[i].run_id : i \in {j \in Workers : ~Running(j)}})
              = main.ntrain
        /\ Calls({"fill", "run_first", "learn", "al_save"}) = <<>>

\* C20: once the try statement is left, cancel_all has been called exactly
\* once; when main ends with the exception, clean() was not called and the
\* output was not saved; when main returns, the calls were cancel_all, then
\* clean() if configured, then the saving of the output.
C20_CancelAllOnEveryPath ==
    /\ main.pc \in {"raised", "al_save", "clean", "save", "exit"}
          => Calls({"cancel_all"}) = <<"cancel_all">>
    /\ main.pc = "raised"
          => Calls({"clean", "save_output"}) = <<>>
    /\ main.pc = "exit"
          => Calls({"cancel_all", "clean", "save_output"}) =
                IF main.clean THEN <<"cancel_all", "clean", "save_output">>
                ELSE <<"cancel_all", "save_output">>

\* spawn_array was left by the exception of a failed run while a run is
\* registered: cancel_all was called, nothing was cleaned or saved
C20_Witness ==
    /\ main.pc = "raised"
    /\ ~main.activelearning
    /\ InFlight # {}
    /\ main.events = <<"spawn_array", "cancel_all">>
    /\ \E r \in RunIds : cancel_result[r] = "not_cancelled"

\* ==================================================== active learning loop
\* the loop behind al.run_first() and al.learn(): Seed -> Iterate -> Done
MaxBudget == 3

MaxSeed == 2

\* the points the acquisition strategy may propose
Candidates == {"x1", "x2"}

\* the terminal states a spawned and awaited run is found in
Outcomes == {"Done", "Crashed"}

InitAL ==
    /\ RunnerAside
    /\ main = Idle /\ cfg = Idle /\ enc = Idle /\ fs = Idle
    /\ \E ntrain \in 1..MaxSeed, budget \in 1..MaxBudget :
          al = [pc |-> "Seed", ntrain |-> ntrain, budget |-> budget,
                seeded |-> 0, iter |-> 0, samples |-> 0, lost |-> 0,
                last |-> "none", same |-> TRUE]

\* a run has been awaited: a completed run is a sample, a failed one is a
\* missing sample that is logged
Collect(a, outcome) ==
    IF outcome = "Done" THEN [a EXCEPT !.samples = a.samples + 1]
    ELSE [a EXCEPT !.lost = a.lost + 1]

\* variant: the loop goes on while the strategy repeats its candidate
BudgetExhausted_unless_repeated(a) ==
    a.iter >= a.budget /\ ~(a.same /\ a.iter >= 2)

\* (d) the stopping criterion
BudgetExhausted(a) == a.iter >= a.budget

\* Seed: one run of the initial batch is spawned and awaited
ALSeedRun ==
    /\ al.pc = "Seed"
    /\ al.seeded < al.ntrain
    /\ \E outcome \in Outcomes :
          al' = Collect([al EXCEPT !.seeded = al.seeded + 1], outcome)
    /\ UNCHANGED <<rvars, main, cfg, enc, fs>>

\* Seed -> Iterate once the initial batch has been awaited
ALSeedEnd ==
    /\ al.pc = "Seed"
    /\ al.seeded = al.ntrain
    /\ al' = [al EXCEPT !.pc = "Iterate"]
    /\ UNCHANGED <<rvars, main, cfg, enc, fs>>

\* Iterate: (a) fit, (b) the strategy proposes a candidate, (c) a run for it is
\* spawned and awaited, (d) the iteration is counted
ALIterate ==
    /\ al.pc = "Iterate"
    /\ ~BudgetExhausted(al)
    /\ \E candidate \in Candidates, outcome \in Outcomes :
          al' = Collect([al EXCEPT
                           !.iter = al.iter + 1,
                           !.last = candidate,
                           !.same = al.same /\ al.last \in {"none", candidate}],
                        outcome)
    /\ UNCHANGED <<rvars, main, cfg, enc, fs>>

\* Iterate -> Done once the budget is exhausted
ALDone ==
    /\ al.pc = "Iterate"
    /\ BudgetExhausted(al)
    /\ al' = [al EXCEPT !.pc = "Done"]
    /\ UNCHANGED <<rvars, main, cfg, enc, fs>>

NextAL ==
    \/ ALSeedRun
    \/ ALSeedEnd
    \/ ALIterate
    \/ ALDone

SpecAL == InitAL /\ [][NextAL]_vars

\* the loop is one sequential thread of control: it takes its next step
\* whenever it has one
FairSpecAL == SpecAL /\ WF_vars(NextAL)

\* C16: the loop never iterates beyond the configured budget and reaches Done,
\* whatever candidates the acquisition strategy returns, the same candidate in
\* every iteration included.
C16_ALTerminates ==
    /\ [](al.pc \in {"Seed", "Iterate", "Done"} => al.iter <= al.budget)
    /\ <>(al.pc = "Done")

\* Done after a budget of three iterations that all proposed the same point
C16_Witness ==
    /\ al.pc = "Done"
    /\ al.budget >= 3
    /\ al.iter = al.budget
    /\ al.same
    /\ al.last = "x1"

\* ==================================================== AbstractConfig defaults
\* __init__, set_defaults and update on a dict-valued attribute ('options' of
\* the slurm runner config): dicts are objects, attributes hold references
MaxInstances == 2

\* the keys of the dict
Keys == {"job-name", "time"}

\* the value of a key: absent, the one of profit.defaults, the user's
Absent == "absent"

DictValues == {Absent, "profit", "user"}

Dicts == [Keys -> DictValues]

EmptyDict == [k \in Keys |-> Absent]

\* the values the defaults module may give the attribute
DefaultDicts == {d \in Dicts : \A k \in Keys : d[k] # "user"}

\* the dicts a user passes to update()
UserDicts == {d \in Dicts : d # EmptyDict /\ \A k \in Keys : d[k] # "profit"}

\* the dict objects: the one of the defaults module, and one for each
\* instance that takes over a dict of the user
DefaultObject == 1

Objects == 1..(MaxInstances + 1)

\* no object: the instance has no such attribute
NoObject == 0

\* dict.update(value)
DictUpdate(d, value) == [k \in Keys |-> IF value[k] # Absent THEN value[k] ELSE d[k]]

\* the defaults module is imported; no config instance exists
InitDefaults ==
    /\ RunnerAside
    /\ main = Idle /\ enc = Idle /\ fs = Idle /\ al = Idle
    /\ \E d \in DefaultDicts :
          cfg = [pc |-> "defaults",
                 heap |-> [o \in Objects |-> IF o = DefaultObject THEN d ELSE EmptyDict],
                 imported |-> d,
                 nobjects |-> 1,
                 instances |-> <<>>]

\* set_defaults: setattr(self, name, value) with the value of the default
\* dictionary itself; a class with defaults = None sets nothing
set_defaults(c, has_defaults) ==
    [heap |-> c.heap, nobjects |-> c.nobjects,
     ref |-> IF has_defaults THEN DefaultObject ELSE NoObject]

\* the value the attribute of an instance has
AttrValue(heap, ref) ==
    IF ref = NoObject THEN [has |-> FALSE, val |-> EmptyDict]
    ELSE [has |-> TRUE, val |-> heap[ref]]

\* __init__() of a config class with or without a defaults entry
ConfigNew ==
    /\ cfg.pc = "defaults"
    /\ Len(cfg.instances) < MaxInstances
    /\ \E has_defaults \in BOOLEAN :
          LET r == set_defaults(cfg, has_defaults)
          IN  cfg' = [cfg EXCEPT
                        !.heap = r.heap,
                        !.nobjects = r.nobjects,
                        !.instances = Append(cfg.instances,
                            [has_defaults |-> has_defaults, options |-> r.ref,
                             started |-> AttrValue(r.heap, r.ref)])]
    /\ UNCHANGED <<rvars, main, enc, fs, al>>

\* update(options=value): a dict attribute is merged in place (attr.update),
\* otherwise the attribute is set to the user's object
ConfigUpdate(i, value) ==
    /\ cfg.pc = "defaults"
    /\ LET ref == cfg.instances[i].options
       IN  IF ref # NoObject
           THEN cfg' = [cfg EXCEPT !.heap[ref] = DictUpdate(cfg.heap[ref], value)]
           ELSE cfg' = [cfg EXCEPT !.heap[cfg.nobjects + 1] = value,
                                   !.nobjects = cfg.nobjects + 1,
                                   !.instances[i].options = cfg.nobjects + 1]
    /\ UNCHANGED <<rvars, main, enc, fs, al>>

NextDefaults ==
    \/ ConfigNew
    \/ \E i \in 1..Len(cfg.instances), value \in UserDicts : ConfigUpdate(i, value)

SpecDefaults == InitDefaults /\ [][NextDefaults]_vars

\* C21: an update() of a dict-valued attribute of one instance never changes
\* the default another, later-created instance of the class starts with: every
\* instance of a class with defaults starts with the value of the defaults
\* module as imported, every instance of a class without defaults with none.
C21_DefaultsIsolated ==
    \A j \in 1..Len(cfg.instances) :
        cfg.instances[j].started =
            IF cfg.instances[j].has_defaults
            THEN [has |-> TRUE, val |-> cfg.imported]
            ELSE [has |-> FALSE, val |-> EmptyDict]
====
